---- MODULE Spec2Model ----
(***************************************************************************)
(* The AHP Bridge browser extension (gnosis-ahp): the background broker    *)
(* (background.js: getBearerToken and the chrome.runtime.onMessage         *)
(* listener), the settings popup (popup.js) and the content script         *)
(* (content.js: detection, the click handler, injectAndSubmit).            *)
(*                                                                         *)
(* Each context is a single-threaded event loop: one action of the model   *)
(* is one task of the loop run to completion, i.e. everything an async     *)
(* function or a promise chain does between two awaits of an external      *)
(* operation (chrome.storage, fetch).  A storage operation takes effect at *)
(* the step at which it settles.  `await fetch(u)` followed by             *)
(* `await response.json()` settles in one step: nothing of the program is  *)
(* read or written between the two.                                        *)
(***************************************************************************)
EXTENDS Integers, Sequences, FiniteSets, TLC

(***************************************************************************)
(* Bounds of the model.                                                    *)
(***************************************************************************)
MaxReq == 2        \* execution requests (user activations) per behaviour
MaxTicks == 1      \* the clock advances at most this many times

(***************************************************************************)
(* Program constants.                                                      *)
(***************************************************************************)
\* background.js:66   Date.now() + (55 * 60 * 1000)
CacheLifetimeMs == 55 * 60 * 1000
\* background.js:53 / content.js:96
DefaultServerUrl == "http://ahp.nuts.services"
\* background.js:48
ConfigurationMissingMessage == "Authentication settings are not configured."
\* background.js:63
AuthGenericMessage == "Failed to get bearer token."
\* background.js:82
TokenParam == "bearer_token"
\* background.js:77
ExecuteAction == "executeAHP"

\* The clock is observed on a grid of one cache lifetime: a token cached at t
\* is unexpired at t and expired (now = expiry) one tick later.
TickMs == CacheLifetimeMs

(***************************************************************************)
(* Input domains.                                                          *)
(***************************************************************************)
Email == "a@b.com"
PreSharedKey == "k1"
CustomServerUrl == "http://localhost:8080"
\* a server URL typed without a scheme: new URL(...) rejects the URLs under it
SchemelessServerUrl == "ahp.local"

\* Messages of the errors raised by the platform (fetch, Response.json, URL).
NetworkErrorMessage == "Failed to fetch"
JsonErrorMessage == "Unexpected token < in JSON"
InvalidUrlMessage == "Invalid URL"

(***************************************************************************)
(* chrome.storage.sync: ahpSettings (popup.js:61-66).  `present = FALSE`   *)
(* is the key being absent from storage.                                   *)
(***************************************************************************)
NoSettings ==
    [present |-> FALSE, serverType |-> "default", customServerUrl |-> "",
     email |-> "", preSharedKey |-> ""]

MkSettings(serverType, customServerUrl, email, preSharedKey) ==
    [present |-> TRUE, serverType |-> serverType,
     customServerUrl |-> customServerUrl,
     email |-> email, preSharedKey |-> preSharedKey]

\* What the form fields can hold (popup.js:44-47): the server type, the
\* custom URL, the e-mail and the key of a submission.
Forms ==
    {<<"default", "", Email, PreSharedKey>>,
     <<"default", CustomServerUrl, Email, PreSharedKey>>,
     <<"custom", "", Email, PreSharedKey>>,
     <<"default", "", "", PreSharedKey>>,
     <<"default", CustomServerUrl, Email, "">>}

\* String.prototype.trim (popup.js:45-47) on what a field can hold: a value,
\* a value typed with blanks around it, blanks only, or nothing.
Whitespace == {" ", "  "}
Padded(str) == " " \o str \o " "
FieldValues == {Email, PreSharedKey, CustomServerUrl}
Trim(str) ==
    IF str \in Whitespace THEN ""
    ELSE IF \E v \in FieldValues : str = Padded(v)
         THEN CHOOSE v \in FieldValues : str = Padded(v)
         ELSE str

\* Lines 49-53 alone: the custom URL is not validated.
FormRejectedCredentialsOnly(serverType, customServerUrl, email, preSharedKey) ==
    email = "" \/ preSharedKey = ""

\* popup.js:49-59: the two validations of the submit handler.
FormRejected(serverType, customServerUrl, email, preSharedKey) ==
    \/ email = "" \/ preSharedKey = ""
    \/ (serverType = "custom" /\ customServerUrl = "")

\* popup.js:61-66
FormSettings(serverType, customServerUrl, email, preSharedKey) ==
    MkSettings(serverType,
               IF serverType = "custom" THEN customServerUrl ELSE "",
               email, preSharedKey)

\* Contents chrome.storage.sync can hold when the extension starts: nothing,
\* settings saved by the popup, or an object lacking the email or the key
\* (the storage is external to the bridge; background.js:46 tests for it).
InitialSettings ==
    {NoSettings,
     MkSettings("default", "", Email, PreSharedKey),
     MkSettings("default", "", "", PreSharedKey),
     MkSettings("default", "", Email, "")}

\* background.js:51-53, content.js:93-97
ServerUrlOf(settings) ==
    IF settings.serverType = "custom" /\ settings.customServerUrl # ""
    THEN settings.customServerUrl
    ELSE DefaultServerUrl

(***************************************************************************)
(* URLs.  A URL string is kept as its base (scheme and host), its path and *)
(* its query, a sequence of <<name, value>> pairs in order of appearance.  *)
(***************************************************************************)
NoUrl == [base |-> "", path |-> "", query |-> <<>>]

MkUrl(base, path, query) == [base |-> base, path |-> path, query |-> query]

\* Query strings a detected URL can carry: none of the token parameter, or
\* two of them around another parameter.
PlainQuery == << <<"text", "hi">> >>
TokenQuery ==
    << <<TokenParam, "evil">>, <<"data", "hello">>, <<TokenParam, "evil2">> >>

\* The URLs written in the code blocks of the page, one per block: a call of
\* the default server whose text carries token parameters of its own, a
\* second call of the default server, and a call of a server written without
\* a scheme.
Document ==
    <<MkUrl(DefaultServerUrl, "generate_qr_code", TokenQuery),
      MkUrl(DefaultServerUrl, "echo", PlainQuery),
      MkUrl(SchemelessServerUrl, "echo", PlainQuery)>>

\* new URL(s) throws TypeError unless s is an absolute URL (background.js:81)
HasScheme(base) == base \in {DefaultServerUrl, CustomServerUrl}
UrlIsValid(url) == HasScheme(url.base)

RECURSIVE RemoveParam(_, _)
RemoveParam(query, name) ==
    IF query = <<>> THEN <<>>
    ELSE IF Head(query)[1] = name THEN RemoveParam(Tail(query), name)
    ELSE <<Head(query)>> \o RemoveParam(Tail(query), name)

\* URLSearchParams.append in place of set
SearchParamsAppend(query, name, value) == query \o << <<name, value>> >>

RECURSIVE SearchParamsSet(_, _, _)
\* URLSearchParams.set (background.js:82): the first pair named `name` takes
\* the value and every other pair of that name is removed; if there is none,
\* the pair is appended.
SearchParamsSet(query, name, value) ==
    IF query = <<>> THEN << <<name, value>> >>
    ELSE IF Head(query)[1] = name
         THEN << <<name, value>> >> \o RemoveParam(Tail(query), name)
         ELSE <<Head(query)>> \o SearchParamsSet(Tail(query), name, value)

\* encodeURIComponent (background.js:55) on the e-mail addresses of the model
EncodeURIComponent(s) == IF s = "a@b.com" THEN "a%40b.com" ELSE s

\* background.js:55
AuthUrlOf(settings) ==
    MkUrl(ServerUrlOf(settings), "auth",
          << <<"token", settings.preSharedKey>>,
             <<"agent_id", EncodeURIComponent(settings.email)>> >>)

(***************************************************************************)
(* Bearer tokens.  The token the auth endpoint of server `srv` issues in   *)
(* answer to the authentication request of execution request `id`.         *)
(***************************************************************************)
NoToken == [srv |-> "", id |-> 0]
MkToken(srv, id) == [srv |-> srv, id |-> id]
\* the string put in the URL for a token (template/searchParams conversion)
TokenString(token) ==
    IF token = NoToken THEN "undefined"
    ELSE "T" \o ToString(token.id) \o "@" \o token.srv

(***************************************************************************)
(* What the servers answer.                                                *)
(***************************************************************************)
\* The value of the `error` field of a JSON body: absent, or null, a string,
\* or an object with or without a `message` (deploy-production.ps1:172-186,
\* README: {error: {message}}).  `json` is JSON.stringify of the value.
ErrAbsent == [kind |-> "absent", text |-> "", message |-> "", json |-> ""]
ErrNull == [kind |-> "null", text |-> "", message |-> "", json |-> "null"]
ErrString ==
    [kind |-> "string", text |-> "payment_required", message |-> "",
     json |-> "\"payment_required\""]
ErrObject ==
    [kind |-> "object", text |-> "", message |-> "insufficient funds",
     json |-> "{\"message\":\"insufficient funds\"}"]
\* the error of a call whose bearer_token the tool server does not accept
ErrToken ==
    [kind |-> "object", text |-> "",
     message |-> "Invalid or expired bearer token",
     json |-> "{\"message\":\"Invalid or expired bearer token\"}"]
ErrorValues == {ErrAbsent, ErrNull, ErrString, ErrObject}

\* JavaScript truthiness of the value (background.js:95, `if (result.error)`)
Truthy(v) == v.kind = "object" \/ (v.kind = "string" /\ v.text # "")

\* Line 96 without the .message alternative.
ToolErrorJson(v) == v.json

\* background.js:96   result.error.message || JSON.stringify(result.error)
ToolErrorMessage(v) ==
    IF v.kind = "object" /\ v.message # "" THEN v.message ELSE v.json

\* A JSON body of the tool server: its error field, and `tool`, the server
\* and path of the call it was computed from.
NoBody == [error |-> ErrAbsent, tool |-> <<>>]
MkBody(error, url) == [error |-> error, tool |-> <<url.base, url.path>>]

\* deploy-production.ps1:177-186: the payment-required challenge is the body
\* whose error is the string "payment_required"; beside the error field it
\* carries a message (and the invoice in `details`).
PaymentRequiredMessage == "This tool requires a Lightning payment to proceed."
BodyMessage(result) ==
    IF result.error = ErrString THEN PaymentRequiredMessage ELSE ""

\* The lifetime the auth server declares for a token it issues: one hour by
\* default, or a shorter one.
DeclaredLifetimeMs == 60 * 60 * 1000
ShortLifetimeMs == 30 * 60 * 1000
DeclaredLifetimes == {DeclaredLifetimeMs, ShortLifetimeMs}

\* A JSON body of the auth endpoint: bearer_token (NoToken: absent or empty),
\* error.message ("": absent), and the lifetime declared for the token.
AuthErrorMessages == {"", "Invalid pre-shared key"}
MkAuthBody(token, message, lifetimeMs) ==
    [bearer_token |-> token, message |-> message, lifetimeMs |-> lifetimeMs]

\* Line 61 testing the status only.
AuthRejectedStatusOnly(ok, data) == ~ok

\* background.js:61
AuthRejected(ok, data) == ~ok \/ data.bearer_token = NoToken

\* Line 63 without the server's message.
AuthErrorGeneric(data) == AuthGenericMessage

\* background.js:63   data.error?.message || "Failed to get bearer token."
AuthErrorMessage(data) ==
    IF data.message # "" THEN data.message ELSE AuthGenericMessage

(***************************************************************************)
(* The response message of the broker (background.js:98, 102).             *)
(***************************************************************************)
NoResponse == [success |-> FALSE, data |-> NoBody, error |-> ""]
SuccessResponse(data) == [success |-> TRUE, data |-> data, error |-> ""]
FailureResponse(message) ==
    [success |-> FALSE, data |-> NoBody, error |-> message]

(***************************************************************************)
(* State.                                                                  *)
(***************************************************************************)
VARIABLES
    now,          \* Date.now(), in ms
    session,      \* chrome.storage.session: bearerToken, tokenExpiry
    ahpSettings,  \* chrome.storage.sync: ahpSettings
    nreq,         \* number of execution requests received so far
    req,          \* the execution requests: position and locals of each
    script,       \* the content script of the page (fixed by the manifest)
    ahpUrlRegex,  \* content.js:62, the server URL the pattern is built from
    initPending,  \* content.js:89, a storage.sync.get of initialize() is pending
    observing,    \* content.js:103, the MutationObserver is connected
    codeBlocks,   \* the <code> elements of the page: text, ahpProcessed
    buttons,      \* the execute buttons of the page
    affordances,  \* data-url of the execute buttons created from each element
    chatInput,    \* the host's input surface: what injectAndSubmit wrote last
    timers,       \* content.js:50, the pending setTimeout of each injection
    sendClicks    \* how many times the host's send button was clicked

brokerVars == <<session, nreq, req>>
contentVars ==
    <<script, ahpUrlRegex, initPending, observing, codeBlocks, buttons, affordances,
      chatInput, timers, sendClicks>>
vars == <<now, ahpSettings, brokerVars, contentVars>>

Requests == 1..MaxReq
Buttons == DOMAIN Document

NoButton ==
    [exists |-> FALSE, url |-> NoUrl, label |-> "", disabled |-> FALSE,
     injected |-> FALSE]

\* The two content scripts of the manifest: content.js (claude.ai) and
\* chatgpt_content.js (chatgpt.com).
ContentJs == "content.js"
ChatgptContentJs == "chatgpt_content.js"
Scripts == {ContentJs, ChatgptContentJs}

\* A <code> element of the page: its textContent as the sequence of the URLs
\* written in it, dataset.ahpProcessed, whether it is in the document and
\* how it got there ("initial": it was there when the script started), and
\* whether a scan has covered it since it was marked processed.  markup:
\* the first URL of the text is written with inline markup around its
\* server part (<b>https://server</b>/tool), which innerHTML shows and
\* textContent does not.
MkBlock(text, attached, how) ==
    [text |-> text, processed |-> FALSE,
     attached |-> attached, how |-> how, rescanned |-> FALSE,
     markup |-> FALSE]

\* request.action, request.url, the locals of getBearerToken while it runs (authUrl,
\* expiryTime, the token of data.bearer_token), the locals of the listener's
\* chain (token: bearerToken, toolUrl: urlWithToken, result: the parsed
\* body), and what sendResponse was given.  fromCache records that
\* getBearerToken returned at line 39.
IdleRequest ==
    [pc |-> "idle", action |-> "", btn |-> 0, url |-> NoUrl,
     fromCache |-> FALSE,
     token |-> NoToken, expiryTime |-> 0, authUrl |-> NoUrl,
     toolUrl |-> NoUrl, result |-> NoBody,
     resp |-> NoResponse, nresp |-> 0]

\* the closure of a request whose response was consumed holds nothing any more
DoneRequest == [IdleRequest EXCEPT !.pc = "done", !.nresp = 1]

\* content.js:44: the result as a fenced json block, pretty-printed
NoInput == [fence |-> "", text |-> NoBody]
FormattedResult(result) == [fence |-> "json", text |-> result]

EmptySession == [bearerToken |-> NoToken, tokenExpiry |-> 0]

\* chrome.storage.session outlives the service worker: when the worker
\* starts it can hold what an earlier lifetime of the worker stored at line
\* 67, which it did with the settings the popup had saved.
PriorSession ==
    [bearerToken |-> MkToken(DefaultServerUrl, 0),
     tokenExpiry |-> CacheLifetimeMs]

InitialSessions(settings) ==
    IF settings = MkSettings("default", "", Email, PreSharedKey)
    THEN {EmptySession, PriorSession}
    ELSE {EmptySession}

Init ==
    /\ now = 0
    /\ ahpSettings \in InitialSettings
    /\ session \in InitialSessions(ahpSettings)
    /\ nreq = 0
    /\ req = [r \in Requests |-> IdleRequest]
    /\ script = ContentJs
    /\ ahpUrlRegex = ""
    /\ initPending = TRUE
    /\ observing = FALSE
    /\ codeBlocks =
          [b \in Buttons |-> MkBlock(<<Document[b]>>, TRUE, "initial")]
    /\ buttons = [b \in Buttons |-> NoButton]
    /\ affordances = [b \in Buttons |-> <<>>]
    /\ chatInput = NoInput
    /\ timers = [r \in Requests |-> "none"]
    /\ sendClicks = 0

(***************************************************************************)
(* The clock.                                                              *)
(***************************************************************************)
Tick ==
    /\ now < MaxTicks * TickMs
    /\ now' = now + TickMs
    /\ UNCHANGED <<ahpSettings, brokerVars, contentVars>>

(***************************************************************************)
(* popup.js:41-75: the submit handler of the settings form.  A stored      *)
(* value that differs from the old one fires chrome.storage.onChanged in   *)
(* the content script (content.js:111-117): observer.disconnect();         *)
(* initialize().  chatgpt_content.js registers no such listener.           *)
(***************************************************************************)
\* content.js:111
HasSettingsListener(which) == which = ContentJs

PopupSubmit(serverType, customServerUrl, email, preSharedKey) ==
    /\ IF FormRejected(serverType, Trim(customServerUrl), Trim(email),
                       Trim(preSharedKey))
       THEN UNCHANGED <<ahpSettings, observing, initPending>>
       ELSE LET settings ==
                    FormSettings(serverType, Trim(customServerUrl),
                                 Trim(email), Trim(preSharedKey))
            IN  /\ ahpSettings' = settings
                /\ IF settings # ahpSettings /\ HasSettingsListener(script)
                   THEN observing' = FALSE /\ initPending' = TRUE
                   ELSE UNCHANGED <<observing, initPending>>
    /\ UNCHANGED <<now, brokerVars, script, ahpUrlRegex, codeBlocks, buttons,
                   affordances, chatInput, timers, sendClicks>>

(***************************************************************************)
(* background.js:76-107: the message listener, and getBearerToken          *)
(* (background.js:34-71) which it calls.  Positions of a request:          *)
(*   sessionGet  line 36, awaiting chrome.storage.session.get              *)
(*   syncGet     line 43, awaiting chrome.storage.sync.get                 *)
(*   authFetch   lines 58-59, awaiting fetch(authUrl) and response.json()  *)
(*   sessionSet  line 67, awaiting chrome.storage.session.set              *)
(*   toolFetch   lines 85-91, awaiting fetch(urlWithToken) and .json()     *)
(*   responded   sendResponse was called, the response is on its way back  *)
(*   ignored     the listener returned at line 107 without a call of       *)
(*               getBearerToken or of sendResponse                         *)
(*   done        the caller's callback has consumed the response           *)
(***************************************************************************)
\* background.js:76-80, 105-107: the listener receives {action, url} sent
\* from button b (0: another sender); for "executeAHP" it calls
\* getBearerToken, for any other action it does nothing
Listener(action, url, b) ==
    /\ nreq < MaxReq
    /\ nreq' = nreq + 1
    /\ req' = [req EXCEPT ![nreq + 1] =
                  [IdleRequest EXCEPT
                      !.pc = IF action = ExecuteAction THEN "sessionGet"
                                                       ELSE "ignored",
                      !.action = action, !.btn = b, !.url = url]]
    /\ UNCHANGED session

\* background.js:98 and 102: sendResponse(response)
Respond(rq, response) ==
    [IdleRequest EXCEPT !.pc = "responded", !.btn = rq.btn,
                        !.result = rq.result,
                        !.resp = response, !.nresp = rq.nresp + 1]

\* The chain without its .catch: the rejection is dropped, nothing is sent.
CatchMissing(rq, message) ==
    [IdleRequest EXCEPT !.pc = "responded", !.btn = rq.btn,
                        !.result = rq.result, !.nresp = rq.nresp]

\* background.js:100-103: the .catch of the chain
Catch(rq, message) == Respond(rq, FailureResponse(message))

\* background.js:81-82
UrlWithToken(url, bearerToken) ==
    MkUrl(url.base, url.path,
          SearchParamsSet(url.query, TokenParam, TokenString(bearerToken)))

\* background.js:80-86: the continuation of getBearerToken() in the listener
ThenExecute(rq, bearerToken) ==
    IF ~UrlIsValid(rq.url)
    THEN Catch(rq, InvalidUrlMessage)
    ELSE [rq EXCEPT !.pc = "toolFetch", !.token = bearerToken,
                    !.toolUrl = UrlWithToken(rq.url, bearerToken),
                    !.authUrl = NoUrl, !.expiryTime = 0]

\* Line 37 with <= for <, and line 37 never satisfied.
CachedTokenValidInclusive(sessionData, time) ==
    /\ sessionData.bearerToken # NoToken
    /\ sessionData.tokenExpiry # 0
    /\ time <= sessionData.tokenExpiry

CachedTokenIgnored(sessionData, time) == FALSE

\* Line 37 without the comparison of the expiry with the clock.
CachedTokenValidNoExpiry(sessionData, time) ==
    sessionData.bearerToken # NoToken /\ sessionData.tokenExpiry # 0

\* background.js:37
CachedTokenValid(sessionData, time) ==
    /\ sessionData.bearerToken # NoToken
    /\ sessionData.tokenExpiry # 0
    /\ time < sessionData.tokenExpiry

\* background.js:36-42
SessionGetSettle(r) ==
    /\ req[r].pc = "sessionGet"
    /\ req' = [req EXCEPT ![r] =
                  IF CachedTokenValid(session, now)
                  THEN ThenExecute([@ EXCEPT !.fromCache = TRUE],
                                   session.bearerToken)
                  ELSE [@ EXCEPT !.pc = "syncGet"]]
    /\ UNCHANGED <<now, ahpSettings, session, nreq, contentVars>>

\* Line 46 without the test of the e-mail.
ConfigurationMissingKeyOnly(settings) ==
    ~settings.present \/ settings.preSharedKey = ""

\* background.js:46
ConfigurationMissing(settings) ==
    ~settings.present \/ settings.preSharedKey = "" \/ settings.email = ""

\* background.js:43-58
SyncGetSettle(r) ==
    /\ req[r].pc = "syncGet"
    /\ req' = [req EXCEPT ![r] =
                  IF ConfigurationMissing(ahpSettings)
                  THEN Catch(@, ConfigurationMissingMessage)
                  ELSE [@ EXCEPT !.pc = "authFetch",
                                 !.authUrl = AuthUrlOf(ahpSettings)]]
    /\ UNCHANGED <<now, ahpSettings, session, nreq, contentVars>>

\* The JSON bodies the auth endpoint can answer request r with.
AuthBodies(r) ==
    {MkAuthBody(t, m, l) :
        t \in {NoToken, MkToken(req[r].authUrl.base, r)},
        m \in AuthErrorMessages, l \in DeclaredLifetimes}

\* Lines 61-66 without the throw: the rejection is logged and the chain goes on.
AuthAnsweredUnchecked(rq, ok, data) ==
    [rq EXCEPT !.pc = "sessionSet", !.token = data.bearer_token,
               !.expiryTime = now + CacheLifetimeMs]

\* Lines 61-64 asking again when the answer is a rejection.
AuthAnsweredRetrying(rq, ok, data) ==
    IF AuthRejected(ok, data)
    THEN [rq EXCEPT !.pc = "syncGet", !.authUrl = NoUrl]
    ELSE [rq EXCEPT !.pc = "sessionSet", !.token = data.bearer_token,
                    !.expiryTime = now + CacheLifetimeMs]

\* Line 66 caching the token for the whole hour.
AuthAnsweredFullLifetime(rq, ok, data) ==
    IF AuthRejected(ok, data)
    THEN Catch(rq, AuthErrorMessage(data))
    ELSE [rq EXCEPT !.pc = "sessionSet", !.token = data.bearer_token,
                    !.expiryTime = now + DeclaredLifetimeMs]

\* background.js:61-66: the body was parsed
AuthAnswered(rq, ok, data) ==
    IF AuthRejected(ok, data)
    THEN Catch(rq, AuthErrorMessage(data))
    ELSE [rq EXCEPT !.pc = "sessionSet", !.token = data.bearer_token,
                    !.expiryTime = now + CacheLifetimeMs]

\* background.js:58-66: fetch rejects, or json() rejects, or a body is parsed
AuthSettle(r) ==
    /\ req[r].pc = "authFetch"
    /\ \/ req' = [req EXCEPT ![r] = Catch(@, NetworkErrorMessage)]
       \/ req' = [req EXCEPT ![r] = Catch(@, JsonErrorMessage)]
       \/ \E ok \in BOOLEAN, data \in AuthBodies(r) :
             req' = [req EXCEPT ![r] = AuthAnswered(@, ok, data)]
    /\ UNCHANGED <<now, ahpSettings, session, nreq, contentVars>>

\* Line 67 storing the token alone, the expiry left for a second write.
SessionSetTokenOnly(r) ==
    /\ req[r].pc = "sessionSet"
    /\ session' = [session EXCEPT !.bearerToken = req[r].token]
    /\ req' = [req EXCEPT ![r] = ThenExecute(@, @.token)]
    /\ UNCHANGED <<now, ahpSettings, nreq, contentVars>>

\* background.js:67-70, then 80-86
SessionSetSettle(r) ==
    /\ req[r].pc = "sessionSet"
    /\ session' = [bearerToken |-> req[r].token,
                   tokenExpiry |-> req[r].expiryTime]
    /\ req' = [req EXCEPT ![r] = ThenExecute(@, @.token)]
    /\ UNCHANGED <<now, ahpSettings, nreq, contentVars>>

\* Line 88 throwing on a non-success status instead of logging it.
ToolAnsweredStatusChecked(rq, ok, result) ==
    LET got == [rq EXCEPT !.result = result]
    IN  IF ~ok
        THEN Catch(got, NetworkErrorMessage)
        ELSE IF Truthy(result.error)
             THEN Catch(got, ToolErrorMessage(result.error))
             ELSE Respond(got, SuccessResponse(result))

\* background.js:87-99: the body was parsed; response.ok is only logged
ToolAnswered(rq, ok, result) ==
    LET got == [rq EXCEPT !.result = result]
    IN  IF Truthy(result.error)
        THEN Catch(got, ToolErrorMessage(result.error))
        ELSE Respond(got, SuccessResponse(result))

\* The chain dropping the cached token whenever a tool call has settled.
ToolSettleInvalidating(r) ==
    /\ req[r].pc = "toolFetch"
    /\ \E ok \in BOOLEAN, error \in ErrorValues :
          req' = [req EXCEPT ![r] =
                     ToolAnswered(@, ok, MkBody(error, @.toolUrl))]
    /\ session' = EmptySession
    /\ UNCHANGED <<now, ahpSettings, nreq, contentVars>>

\* background.js:87-103: fetch rejects, or json() rejects, or a body is parsed
\* (whatever the status: line 88 only logs)
ToolSettle(r) ==
    /\ req[r].pc = "toolFetch"
    /\ \/ req' = [req EXCEPT ![r] = Catch(@, NetworkErrorMessage)]
       \/ req' = [req EXCEPT ![r] = Catch(@, JsonErrorMessage)]
       \/ \E ok \in BOOLEAN, error \in ErrorValues :
             req' = [req EXCEPT ![r] =
                        ToolAnswered(@, ok, MkBody(error, @.toolUrl))]
    /\ UNCHANGED <<now, ahpSettings, session, nreq, contentVars>>

BrokerStep(r) ==
    \/ SessionGetSettle(r)
    \/ SyncGetSettle(r)
    \/ AuthSettle(r)
    \/ SessionSetSettle(r)
    \/ ToolSettle(r)

(***************************************************************************)
(* The broker seen from its callers: any extension context can send it a   *)
(* request for any URL of the page, and consumes the response.             *)
(***************************************************************************)
OnMessage(url) ==
    /\ Listener(ExecuteAction, url, 0)
    /\ UNCHANGED <<now, ahpSettings, contentVars>>

Deliver(r) ==
    /\ req[r].pc = "responded"
    /\ req[r].btn = 0
    /\ req' = [req EXCEPT ![r] = DoneRequest]
    /\ UNCHANGED <<now, ahpSettings, session, nreq, contentVars>>

RequestUrls == {Document[b] : b \in Buttons}

Next ==
    \/ Tick
    \/ \E f \in Forms : PopupSubmit(f[1], f[2], f[3], f[4])
    \/ \E url \in RequestUrls : OnMessage(url)
    \/ \E r \in Requests : BrokerStep(r)
    \/ \E r \in Requests : Deliver(r)

Spec == Init /\ [][Next]_vars

\* Every pending storage and network operation eventually settles.
FairSpec == Spec /\ \A r \in Requests : WF_vars(BrokerStep(r))

(***************************************************************************)
(* The broker with senders of messages of any action.                      *)
(***************************************************************************)
\* action names a message can carry beside "executeAHP"
OtherActions == {"executeCall"}

OnOtherMessage(action, url) ==
    /\ Listener(action, url, 0)
    /\ UNCHANGED <<now, ahpSettings, contentVars>>

NextMessages ==
    \/ Next
    \/ \E action \in OtherActions, url \in RequestUrls :
          OnOtherMessage(action, url)

SpecMessages == Init /\ [][NextMessages]_vars

(***************************************************************************)
(* The broker with a tool server that stops accepting a token it is sent   *)
(* (the token has expired on the server, or was revoked).                  *)
(***************************************************************************)
\* background.js:87-103: the tool server answers the call with status 401
\* and the error of a token it does not accept
ToolRejectsToken(r) ==
    /\ req[r].pc = "toolFetch"
    /\ req' = [req EXCEPT ![r] =
                  ToolAnswered(@, FALSE, MkBody(ErrToken, @.toolUrl))]
    /\ UNCHANGED <<now, ahpSettings, session, nreq, contentVars>>

NextRejection ==
    \/ Next
    \/ \E r \in Requests : ToolRejectsToken(r)

SpecRejection == Init /\ [][NextRejection]_vars

(***************************************************************************)
(* content.js: detection.                                                  *)
(***************************************************************************)
\* content.js:64-66: the string is a match of <escaped server>/[^\s\n)]+
RegexMatch(serverUrl, url) ==
    serverUrl # "" /\ url.base = serverUrl /\ url.path # ""

\* content.js:75, 78: the matches of the global pattern in a text, in order
RECURSIVE Matches(_, _)
Matches(serverUrl, text) ==
    IF text = <<>> THEN <<>>
    ELSE IF RegexMatch(serverUrl, Head(text))
         THEN <<Head(text)>> \o Matches(serverUrl, Tail(text))
         ELSE Matches(serverUrl, Tail(text))

\* Line 75 without the test of the marker.
ToProcessUnmarked(block, serverUrl) == Matches(serverUrl, block.text) # <<>>

\* content.js:75, chatgpt_content.js:119: the code block is given its
\* buttons by this scan
ToProcess(block, serverUrl) ==
    Matches(serverUrl, block.text) # <<>> /\ ~block.processed

\* content.js:79: the button appended after the matched URL
NewButton(url) ==
    [exists |-> TRUE, url |-> url, label |-> "Execute", disabled |-> FALSE,
     injected |-> FALSE]

\* Element.innerHTML of a code element: its text with the tags of its
\* inline markup
MarkedUp(url) == [url EXCEPT !.base = "<b>" \o @ \o "</b>"]
InnerHtml(block) ==
    IF block.markup
    THEN <<MarkedUp(Head(block.text))>> \o Tail(block.text)
    ELSE block.text

\* data-url of the buttons a scan creates from a block it processes.
\* content.js:78-81: String.replace with the global pattern appends a button
\* after every match in node.innerHTML; chatgpt_content.js:121-125: one button, whose URL is
\* match(...)[0]
NewAffordances(which, block, serverUrl) ==
    IF which = ChatgptContentJs
    THEN <<Head(Matches(serverUrl, block.text))>>
    ELSE Matches(serverUrl, InnerHtml(block))

\* Lines 75-77 with a marker that a later scan takes off again.
FindAndProcessAhpUrlsUnmarking(scope, serverUrl, blocks) ==
    [b \in Buttons |->
        IF b \in scope /\ ToProcess(blocks[b], serverUrl)
        THEN [blocks[b] EXCEPT !.processed = TRUE]
        ELSE IF b \in scope /\ blocks[b].processed
             THEN [blocks[b] EXCEPT !.processed = FALSE, !.rescanned = TRUE]
             ELSE blocks[b]]

\* content.js:70-84 over the code blocks in `scope`, with pattern `serverUrl`
FindAndProcessAhpUrls(scope, serverUrl, blocks) ==
    [b \in Buttons |->
        IF b \in scope /\ ToProcess(blocks[b], serverUrl)
        THEN [blocks[b] EXCEPT !.processed = TRUE]
        ELSE IF b \in scope /\ blocks[b].processed
             THEN [blocks[b] EXCEPT !.rescanned = TRUE]
             ELSE blocks[b]]

\* content.js:78-81, chatgpt_content.js:121-130: the buttons of the page after
\* the scan
AffordancesAfterScan(scope, serverUrl, blocks) ==
    [b \in Buttons |->
        IF b \in scope /\ ToProcess(blocks[b], serverUrl)
        THEN affordances[b] \o NewAffordances(script, blocks[b], serverUrl)
        ELSE affordances[b]]

\* content.js:73, 101: document.body.querySelectorAll('code')
AttachedBlocks(blocks) == {b \in Buttons : blocks[b].attached}

\* the first of the buttons created from each block, which the user activates
ButtonsAfterScan(scope, serverUrl, blocks) ==
    [b \in Buttons |->
        IF /\ b \in scope /\ ToProcess(blocks[b], serverUrl)
           /\ NewAffordances(script, blocks[b], serverUrl) # <<>>
        THEN NewButton(Head(NewAffordances(script, blocks[b], serverUrl)))
        ELSE buttons[b]]

\* content.js:89-107: the callback of initialize()'s chrome.storage.sync.get
InitializeCallback ==
    /\ initPending
    /\ LET serverUrl == ServerUrlOf(ahpSettings)
       IN  /\ ahpUrlRegex' = serverUrl
           /\ codeBlocks' = FindAndProcessAhpUrls(AttachedBlocks(codeBlocks),
                                                 serverUrl, codeBlocks)
           /\ buttons' = ButtonsAfterScan(AttachedBlocks(codeBlocks),
                                          serverUrl, codeBlocks)
           /\ affordances' = AffordancesAfterScan(AttachedBlocks(codeBlocks),
                                                  serverUrl, codeBlocks)
    /\ observing' = TRUE
    /\ initPending' = FALSE
    /\ UNCHANGED <<now, ahpSettings, brokerVars, script, chatInput, timers,
                   sendClicks>>

(***************************************************************************)
(* content.js:120-139: the click handler of the execute buttons.  A        *)
(* disabled button receives no click.  The message the handler sends       *)
(* reaches the listener of the background context.                         *)
(***************************************************************************)
\* Line 125 missing: the button stays enabled while the call is in flight.
ClickKeepsEnabled(b) ==
    /\ buttons[b].exists
    /\ ~buttons[b].disabled
    /\ buttons' = [buttons EXCEPT ![b].label = "Executing..."]
    /\ Listener(ExecuteAction, buttons[b].url, b)
    /\ UNCHANGED <<now, ahpSettings, script, ahpUrlRegex, initPending,
                   observing, codeBlocks, affordances, chatInput, timers,
                   sendClicks>>

\* Line 122 reading the URL from the text of the code element.
ClickCurrentText(b) ==
    /\ buttons[b].exists
    /\ ~buttons[b].disabled
    /\ buttons' = [buttons EXCEPT ![b].label = "Executing...",
                                  ![b].disabled = TRUE]
    /\ Listener(ExecuteAction, codeBlocks[b].text[1], b)
    /\ UNCHANGED <<now, ahpSettings, script, ahpUrlRegex, initPending,
                   observing, codeBlocks, affordances, chatInput, timers,
                   sendClicks>>

Click(b) ==
    /\ buttons[b].exists
    /\ ~buttons[b].disabled
    /\ buttons' = [buttons EXCEPT ![b].label = "Executing...",
                                  ![b].disabled = TRUE]
    /\ Listener(ExecuteAction, buttons[b].url, b)
    /\ UNCHANGED <<now, ahpSettings, script, ahpUrlRegex, initPending, observing,
                   codeBlocks, affordances, chatInput, timers, sendClicks>>

(***************************************************************************)
(* content.js:127-137: the callback of sendMessage, and injectAndSubmit    *)
(* (content.js:34-59).                                                     *)
(***************************************************************************)
\* document.querySelector('.ahp-execute-btn') in place of event.target
CallbackTargetFirst(rq) == 1

\* content.js:131-134: event.target, the button the click handler closed over
CallbackTarget(rq) == rq.btn

\* Line 129 taking every response for a result.
ResponseAlwaysSucceeded(response) == TRUE

\* content.js:129   if (response.success)
ResponseSucceeded(response) == response.success

\* Lines 133-134 without the re-enabling.
FailedButtonDisabled(button) == [button EXCEPT !.label = "Failed"]

\* content.js:133-134
FailedButton(button) ==
    [button EXCEPT !.label = "Failed", !.disabled = FALSE]

ContentCallback(r) ==
    /\ req[r].pc = "responded"
    /\ req[r].btn # 0
    /\ req' = [req EXCEPT ![r] = DoneRequest]
    /\ IF ResponseSucceeded(req[r].resp)
       THEN \E inputFound \in BOOLEAN, sendButtonFound \in BOOLEAN :
               /\ buttons' =
                     [buttons EXCEPT
                         ![CallbackTarget(req[r])].label = "Injected",
                         ![CallbackTarget(req[r])].injected = inputFound]
               /\ IF inputFound
                  THEN /\ chatInput' = FormattedResult(req[r].resp.data)
                       /\ timers' = [timers EXCEPT ![r] =
                             IF sendButtonFound THEN "button" ELSE "nobutton"]
                  ELSE UNCHANGED <<chatInput, timers>>
       ELSE /\ buttons' =
                 [buttons EXCEPT ![CallbackTarget(req[r])] = FailedButton(@)]
            /\ UNCHANGED <<chatInput, timers>>
    /\ UNCHANGED <<now, ahpSettings, session, nreq, script, ahpUrlRegex,
                   initPending,
                   observing, codeBlocks, affordances, sendClicks>>

\* Whether the timeout clicks the send button.  content.js:37, 51: the
\* button findSendButton returned before the delay, if it is not disabled
\* now; chatgpt_content.js:99-101: the button findSendButton returns when the
\* timeout fires, if it is not disabled
SubmitClicks(which, foundAtInjection, foundNow, enabled) ==
    IF which = ChatgptContentJs
    THEN foundNow /\ enabled
    ELSE foundAtInjection /\ enabled

\* content.js:50-58: the timeout fires.  The host keeps a send button it had
\* when the result was written; one it did not have then, it may have now.
SubmitTimer(r) ==
    /\ timers[r] # "none"
    /\ timers' = [timers EXCEPT ![r] = "none"]
    /\ \E foundNow \in BOOLEAN, enabled \in BOOLEAN :
          /\ timers[r] = "button" => foundNow
          /\ IF SubmitClicks(script, timers[r] = "button", foundNow, enabled)
             THEN sendClicks' = sendClicks + 1
             ELSE UNCHANGED sendClicks
    /\ UNCHANGED <<now, ahpSettings, brokerVars, script, ahpUrlRegex, initPending,
                   observing, codeBlocks, buttons, affordances, chatInput>>

(***************************************************************************)
(* The bridge: the content script of a page and the broker.                *)
(***************************************************************************)
NextBridge ==
    \/ Tick
    \/ \E f \in Forms : PopupSubmit(f[1], f[2], f[3], f[4])
    \/ InitializeCallback
    \/ \E b \in Buttons : Click(b)
    \/ \E r \in Requests : BrokerStep(r)
    \/ \E r \in Requests : ContentCallback(r)
    \/ \E r \in Requests : SubmitTimer(r)

SpecBridge == Init /\ [][NextBridge]_vars

\* Every pending storage and network operation eventually settles, and the
\* callback of every response sent is eventually run.
FairSpecBridge ==
    SpecBridge /\ \A r \in Requests :
                     WF_vars(BrokerStep(r)) /\ WF_vars(ContentCallback(r))

\* The order of the positions of a request (background.js:34-107).
PcRank(pc) ==
    CASE pc = "idle" -> 0
      [] pc = "sessionGet" -> 1
      [] pc = "syncGet" -> 2
      [] pc = "authFetch" -> 3
      [] pc = "sessionSet" -> 4
      [] pc = "toolFetch" -> 5
      [] pc = "responded" -> 6
      [] pc = "ignored" -> 6
      [] pc = "done" -> 7

(***************************************************************************)
(* Detection in a document the host keeps changing (content.js:143-153).   *)
(* The host inserts a code element in one of three ways: inside an element *)
(* it adds ("subtree"), as the added node itself ("code"), or by adding    *)
(* the text to a code element ("text").  The MutationObserver callback     *)
(* runs before any other task.                                             *)
(***************************************************************************)
MaxOccurrences == 2      \* URLs written in one code element
InsertionKinds == {"subtree", "code", "text"}

\* part_005:59-69: the paths of the tool server that are not tools
ReservedPaths ==
    {"", "auth", "openapi", "schema", "session/start", "human_home",
     "robots.txt", "health"}

\* The URLs the host writes in code element b: the call of Document, a call
\* of another tool of the same server, and the health route of that server.
SecondUrl(b) == MkUrl(Document[b].base, "send_message", PlainQuery)
ReservedUrl(b) == MkUrl(Document[b].base, "health", <<>>)
UrlsOf(b) == {Document[b], SecondUrl(b), ReservedUrl(b)}

\* the code elements the host inserts: those that hold calls of a server
DetectBlocks == {b \in Buttons : UrlIsValid(Document[b])}

\* the texts of code element b: the call of Document, then any of its URLs
Texts(b) ==
    {text \in UNION {[1..n -> UrlsOf(b)] : n \in 1..MaxOccurrences} :
        text[1] = Document[b]}

\* Line 148 run over the element the node was added to (mutation.target).
ObserverScopeTarget(b, how) == {b}

\* content.js:144-150: the code elements findAndProcessAhpUrls is run over
\* for the added node: an element's descendants (querySelectorAll does not
\* return the element itself; a button has no code element in it), nothing
\* for a text node (nodeType 3)
ObserverScope(b, how) == IF how = "subtree" THEN {b} ELSE {}

\* The nodes the script itself adds to the observed document.  content.js:82
\* assigns innerHTML: the text and the buttons become new children of the
\* code element; chatgpt_content.js:126-130 inserts the button after the
\* pre or code element
OwnAddedNodes(which) ==
    IF which = ChatgptContentJs THEN {"button"} ELSE {"text", "button"}

\* content.js:143-153 for the node added with block b, if the observer is
\* connected
ObserverCallback(b, how, blocks) ==
    LET scope == IF observing THEN ObserverScope(b, how) ELSE {}
    IN  /\ codeBlocks' = FindAndProcessAhpUrls(scope, ahpUrlRegex, blocks)
        /\ buttons' = ButtonsAfterScan(scope, ahpUrlRegex, blocks)
        /\ affordances' = AffordancesAfterScan(scope, ahpUrlRegex, blocks)

HostInsert(b, how, text) ==
    /\ ~codeBlocks[b].attached
    /\ ObserverCallback(b, how,
          [codeBlocks EXCEPT ![b] = MkBlock(text, TRUE, how)])
    /\ UNCHANGED <<now, ahpSettings, brokerVars, script, ahpUrlRegex, initPending,
                   observing, chatInput, timers, sendClicks>>

\* the host inserts code element b with inline markup in its first URL
HostInsertMarkedUp(b, how, text) ==
    /\ ~codeBlocks[b].attached
    /\ ObserverCallback(b, how,
          [codeBlocks EXCEPT
              ![b] = [MkBlock(text, TRUE, how) EXCEPT !.markup = TRUE]])
    /\ UNCHANGED <<now, ahpSettings, brokerVars, script, ahpUrlRegex, initPending,
                   observing, chatInput, timers, sendClicks>>

\* the host moves the subtree that holds block b: the element is removed and
\* added again, with its marker
HostReinsert(b) ==
    /\ codeBlocks[b].attached
    /\ ObserverCallback(b, "subtree", codeBlocks)
    /\ UNCHANGED <<now, ahpSettings, brokerVars, script, ahpUrlRegex, initPending,
                   observing, chatInput, timers, sendClicks>>

\* What the settings form can hold on a page whose user also sets a server
\* of their own (popup.js:44-47).
PageForms == Forms \cup {<<"custom", CustomServerUrl, Email, PreSharedKey>>}

InitDetect ==
    /\ now = 0
    /\ ahpSettings \in InitialSettings
    /\ session = EmptySession
    /\ nreq = 0
    /\ req = [r \in Requests |-> IdleRequest]
    /\ script \in Scripts
    /\ ahpUrlRegex = ""
    /\ initPending = TRUE
    /\ observing = FALSE
    /\ codeBlocks =
          [b \in Buttons |-> MkBlock(<<Document[b]>>, FALSE, "none")]
    /\ buttons = [b \in Buttons |-> NoButton]
    /\ affordances = [b \in Buttons |-> <<>>]
    /\ chatInput = NoInput
    /\ timers = [r \in Requests |-> "none"]
    /\ sendClicks = 0

NextDetect ==
    \/ \E f \in PageForms : PopupSubmit(f[1], f[2], f[3], f[4])
    \/ InitializeCallback
    \/ \E b \in DetectBlocks, how \in InsertionKinds :
          \E text \in Texts(b) : HostInsert(b, how, text)
    \/ \E b \in DetectBlocks : HostReinsert(b)

SpecDetect == InitDetect /\ [][NextDetect]_vars

\* The callback of a pending chrome.storage.sync.get is eventually run.
FairSpecDetect == SpecDetect /\ WF_vars(InitializeCallback)

\* The popup of a user who types blanks into the fields of the form, beside
\* a page the content script runs in.
PopupForms ==
    PageForms \cup {<<"custom", Padded(CustomServerUrl), Padded(Email),
                      Padded(PreSharedKey)>>,
                    <<"custom", "  ", Email, PreSharedKey>>,
                    <<"default", "", " ", PreSharedKey>>,
                    <<"custom", CustomServerUrl, Email, "  ">>}

NextPopup ==
    \/ \E f \in PopupForms : PopupSubmit(f[1], f[2], f[3], f[4])
    \/ InitializeCallback
    \/ \E b \in DetectBlocks, how \in InsertionKinds :
          HostInsert(b, how, <<Document[b]>>)
    \/ \E b \in DetectBlocks : HostReinsert(b)

SpecPopup == InitDetect /\ [][NextPopup]_vars

\* Detection in a document whose host also formats the URLs it writes.
NextMarkup ==
    \/ NextDetect
    \/ \E b \in DetectBlocks, how \in InsertionKinds :
          \E text \in Texts(b) : HostInsertMarkedUp(b, how, text)

SpecMarkup == InitDetect /\ [][NextMarkup]_vars

(***************************************************************************)
(* The page: a content script with the broker, in a document whose code    *)
(* elements the host rewrites.  The host changes the text of a code        *)
(* element by adding a text node to it ("text"), or moves the element with *)
(* its new text inside a subtree it adds ("subtree").  The attributes of   *)
(* the element (data-ahp-processed) and the buttons stay.                  *)
(***************************************************************************)
TextChangeKinds == {"text", "subtree"}

ChangedText(b, text) ==
    IF text = <<Document[b]>> THEN <<SecondUrl(b)>> ELSE <<Document[b]>>

HostChangeText(b, how) ==
    /\ codeBlocks[b].attached
    /\ ObserverCallback(b, how,
          [codeBlocks EXCEPT
              ![b].text = ChangedText(b, @), ![b].rescanned = FALSE])
    /\ UNCHANGED <<now, ahpSettings, brokerVars, script, ahpUrlRegex,
                   initPending, observing, chatInput, timers, sendClicks>>

\* background.js:78-103 seen from the page: the chain of the listener runs
\* from the message to its sendResponse, which is given the result of the
\* call or the message of a failure.
ListenerAnswers(r) ==
    /\ req[r].pc = "sessionGet"
    /\ \/ req' = [req EXCEPT ![r] =
                     ToolAnswered(@, TRUE, MkBody(ErrAbsent, @.url))]
       \/ req' = [req EXCEPT ![r] = Catch(@, NetworkErrorMessage)]
    /\ UNCHANGED <<now, ahpSettings, session, nreq, contentVars>>

InitPage ==
    /\ now = 0
    /\ ahpSettings = MkSettings("default", "", Email, PreSharedKey)
    /\ session = EmptySession
    /\ nreq = 0
    /\ req = [r \in Requests |-> IdleRequest]
    /\ script \in Scripts
    /\ ahpUrlRegex = ""
    /\ initPending = TRUE
    /\ observing = FALSE
    /\ codeBlocks =
          [b \in Buttons |-> MkBlock(<<Document[b]>>, TRUE, "initial")]
    /\ buttons = [b \in Buttons |-> NoButton]
    /\ affordances = [b \in Buttons |-> <<>>]
    /\ chatInput = NoInput
    /\ timers = [r \in Requests |-> "none"]
    /\ sendClicks = 0

NextPage ==
    \/ \E f \in PageForms : PopupSubmit(f[1], f[2], f[3], f[4])
    \/ InitializeCallback
    \/ \E b \in DetectBlocks, how \in TextChangeKinds : HostChangeText(b, how)
    \/ \E b \in Buttons : Click(b)
    \/ \E r \in Requests : ListenerAnswers(r)
    \/ \E r \in Requests : ContentCallback(r)
    \/ \E r \in Requests : SubmitTimer(r)

SpecPage == InitPage /\ [][NextPage]_vars

(***************************************************************************)
(* Properties of the broker.                                               *)
(***************************************************************************)

\* C1: every execution request the listener receives is answered exactly
\* once: never twice, and, provided every pending storage and network
\* operation eventually settles, not never - whichever path the request
\* takes (token acquisition failure, malformed URL, network failure, body
\* that is not JSON, error payload, success).  The answer is
\* {success: true, data} or {success: false, error}.
C1_ExactlyOneResponse ==
    /\ [](\A r \in Requests :
            /\ req[r].nresp <= 1
            /\ req[r].pc = "responded" =>
                  /\ req[r].nresp = 1
                  /\ \/ req[r].resp.success /\ req[r].resp.data # NoBody
                     \/ ~req[r].resp.success /\ req[r].resp.error # "")
    /\ \A r \in Requests : (req[r].pc # "idle") ~> (req[r].nresp = 1)

\* one request answered with a result while another, for the URL `new URL`
\* rejects, is answered with the failure
C1_Witness ==
    \E r1, r2 \in Requests :
        /\ req[r1].pc = "responded" /\ req[r1].resp.success
        /\ req[r2].pc = "responded" /\ req[r2].nresp = 1
        /\ req[r2].resp = FailureResponse(InvalidUrlMessage)

\* C2: requests that arrive while no valid token is cached share one
\* in-flight authentication request: at no time are two authentication
\* requests in flight, and no two requests are issued a token of their own in
\* the same refresh window.
C2_SingleAuthenticationInFlight ==
    \A r1, r2 \in Requests :
        /\ (req[r1].pc = "authFetch" /\ req[r2].pc = "authFetch") => r1 = r2
        /\ ( /\ req[r1].pc \in {"sessionSet", "toolFetch"}
             /\ req[r2].pc \in {"sessionSet", "toolFetch"}
             /\ ~req[r1].fromCache /\ ~req[r2].fromCache
             /\ now < session.tokenExpiry ) => r1 = r2

\* C3: a call of getBearerToken whose session read finds a token and
\* now < tokenExpiry returns that token and issues no authentication request:
\* the request goes on to the tool call (or to the failure of `new URL`) with
\* the cached token, and never is at the auth endpoint afterwards.
C3_ValidCacheNoAuthRequest ==
    /\ [][\A r \in Requests :
            ( /\ req[r].pc = "sessionGet" /\ req'[r] # req[r]
              /\ session.bearerToken # NoToken
              /\ now < session.tokenExpiry )
            => /\ req'[r].pc \in {"toolFetch", "responded"}
               /\ req'[r].authUrl = NoUrl
               /\ req'[r].pc = "toolFetch" =>
                     /\ req'[r].fromCache
                     /\ req'[r].token = session.bearerToken
               /\ req'[r].pc = "responded" =>
                     req'[r].resp = FailureResponse(InvalidUrlMessage)]_vars
    /\ [](\A r \in Requests :
            req[r].fromCache =>
                req[r].pc = "toolFetch" /\ req[r].authUrl = NoUrl)

\* two executions, both served from the cache, no tick of the clock since
C3_Witness ==
    \E r1, r2 \in Requests :
        /\ r1 # r2
        /\ req[r1].pc = "toolFetch" /\ req[r1].fromCache
        /\ req[r2].pc = "toolFetch" /\ req[r2].fromCache
        /\ req[r1].token = session.bearerToken
        /\ req[r2].token = session.bearerToken
        /\ now < session.tokenExpiry

\* C4: a tool call that carries a token taken from the cache is sent at a
\* time strictly before the expiry cached with the token; a request that
\* finds the cached token expired (tokenExpiry <= now) goes on to fetch a new
\* one, and the token its tool call then carries is the one issued to it.
C4_CachedTokenUsedBeforeExpiry ==
    [][\A r \in Requests :
         /\ (req[r].pc # "toolFetch" /\ req'[r].pc = "toolFetch")
            => IF req'[r].fromCache
               THEN /\ now' < session'.tokenExpiry
                    /\ req'[r].token = session'.bearerToken
               ELSE /\ req[r].pc = "sessionSet"
                    /\ req'[r].token.id = r
         /\ ( /\ req[r].pc = "sessionGet" /\ req'[r] # req[r]
              /\ session.tokenExpiry <= now )
            => req'[r].pc = "syncGet"]_vars

\* the cached token has expired, one request refreshed it and another uses
\* the refreshed token from the cache
C4_Witness ==
    \E r1, r2 \in Requests :
        /\ now = TickMs
        /\ req[r1].pc = "toolFetch" /\ ~req[r1].fromCache
        /\ req[r1].token.id = r1
        /\ req[r2].pc = "toolFetch" /\ req[r2].fromCache
        /\ req[r2].token = req[r1].token

C6_AcquisitionFailureAnswered ==
    [][\A r \in Requests :
         (req[r].pc \in {"syncGet", "authFetch"} /\ req'[r] # req[r])
         => \/ /\ req[r].pc = "syncGet" /\ req'[r].pc = "authFetch"
               /\ ahpSettings.present
               /\ ahpSettings.email # "" /\ ahpSettings.preSharedKey # ""
            \/ /\ req[r].pc = "authFetch" /\ req'[r].pc = "sessionSet"
               /\ req'[r].token # NoToken
            \/ /\ req'[r].pc = "responded"
               /\ req'[r].nresp = 1
               /\ ~req'[r].resp.success
               /\ req'[r].resp.error \in
                     {ConfigurationMissingMessage, NetworkErrorMessage,
                      JsonErrorMessage, AuthGenericMessage}
                     \cup (AuthErrorMessages \ {""})
               /\ req'[r].resp.data = NoBody
               /\ req'[r].result = NoBody]_vars

\* the auth endpoint answered without a token and without a message, and the
\* request is answered with the generic failure
C6_Witness ==
    \E r \in Requests :
        /\ req[r].pc = "responded"
        /\ req[r].resp = FailureResponse(AuthGenericMessage)
        /\ req[r].result = NoBody

\* C7: the URL fetched from the tool server carries exactly one bearer_token
\* parameter, whose value is the token getBearerToken returned to this
\* request; the other parameters of the request URL are kept in order, and no
\* bearer_token value written in the request URL is transmitted.
C7_SingleBrokerToken ==
    \A r \in Requests :
        req[r].pc = "toolFetch" =>
            LET q == req[r].toolUrl.query
                own == {i \in DOMAIN q : q[i][1] = TokenParam}
            IN  /\ Cardinality(own) = 1
                /\ \A i \in own : q[i][2] = TokenString(req[r].token)
                /\ req[r].token # NoToken
                /\ \A i \in DOMAIN req[r].url.query :
                      req[r].url.query[i][1] = TokenParam =>
                          \A j \in DOMAIN q : q[j][2] # req[r].url.query[i][2]
                /\ RemoveParam(q, TokenParam) =
                      RemoveParam(req[r].url.query, TokenParam)
                /\ req[r].toolUrl.base = req[r].url.base
                /\ req[r].toolUrl.path = req[r].url.path

\* the tool call of a request whose URL was written with two bearer_token
\* parameters of its own
C7_Witness ==
    \E r \in Requests :
        /\ req[r].pc = "toolFetch"
        /\ req[r].url.query = TokenQuery
        /\ req[r].toolUrl.query =
              << <<TokenParam, TokenString(req[r].token)>>,
                 <<"data", "hello">> >>

\* C8: a request is at its tool call only with the token its own
\* getBearerToken call returned - read from the session store, or issued to
\* this request and stored - and it enters the tool call from the step that
\* completed the acquisition.  Nothing orders the requests among each other:
\* several tool calls can be in flight at once (C8_Witness).
C8_TokenBeforeToolCall ==
    /\ [](\A r \in Requests :
            req[r].pc = "toolFetch" =>
                /\ req[r].token # NoToken
                /\ req[r].fromCache \/ req[r].token.id = r)
    /\ [][\A r \in Requests :
            (req[r].pc # "toolFetch" /\ req'[r].pc = "toolFetch")
            => \/ /\ req[r].pc = "sessionGet"
                  /\ session.bearerToken # NoToken
                  /\ req'[r].token = session.bearerToken
               \/ /\ req[r].pc = "sessionSet"
                  /\ req[r].token # NoToken
                  /\ req'[r].token = req[r].token
                  /\ session'.bearerToken = req[r].token]_vars

\* two tool calls in flight at once, the later request's with the cached
\* token while the earlier request's carries the token issued to it
C8_Witness ==
    \E r1, r2 \in Requests :
        /\ r1 < r2
        /\ req[r1].pc = "toolFetch" /\ ~req[r1].fromCache
        /\ req[r2].pc = "toolFetch" /\ req[r2].fromCache
        /\ req[r1].url # req[r2].url

(***************************************************************************)
(* Properties of the bridge.                                               *)
(***************************************************************************)

\* C9: the tool call of a request is made for the URL of the button that
\* sent it, the response the button's callback receives was computed from
\* that call, and the callback sets its own button to Injected (success) or
\* Failed (failure) and leaves every other button as it is, whatever the
\* order in which the requests in flight complete.
C9_OwnResponseOwnButton ==
    /\ [](\A r \in Requests :
            req[r].btn # 0 =>
                LET own == buttons[req[r].btn].url
                IN  /\ buttons[req[r].btn].exists
                    /\ req[r].pc = "toolFetch" =>
                          /\ req[r].toolUrl.base = own.base
                          /\ req[r].toolUrl.path = own.path
                    /\ (req[r].pc = "responded" /\ req[r].resp.success) =>
                          req[r].resp.data.tool = <<own.base, own.path>>
                    /\ (req[r].pc = "responded" /\ req[r].result # NoBody) =>
                          req[r].result.tool = <<own.base, own.path>>)
    /\ [][\A r \in Requests :
            (req[r].pc = "responded" /\ req'[r].pc = "done")
            => /\ buttons'[req[r].btn].label =
                     IF req[r].resp.success THEN "Injected" ELSE "Failed"
               /\ \A b \in Buttons :
                     b # req[r].btn => buttons'[b] = buttons[b]]_vars

\* the request sent second has completed and its button shows the outcome
\* while the request sent first is still at the tool server
C9_Witness ==
    /\ req[1].pc = "toolFetch" /\ req[1].btn = 1
    /\ buttons[1].label = "Executing..."
    /\ req[2].pc = "done"
    /\ buttons[2].label = "Failed"

(***************************************************************************)
(* Error payloads of the tool server.                                      *)
(***************************************************************************)

\* C10 as stated: a body that contains an error field, whatever the status,
\* resolves {success: false, error: M} with M the error's message.
C10_AnyErrorFieldIsFailure ==
    \A r \in Requests :
        (req[r].pc = "responded" /\ req[r].result.error.kind # "absent")
        => /\ ~req[r].resp.success
           /\ req[r].resp.error =
                 IF req[r].result.error.kind = "string"
                 THEN req[r].result.error.text
                 ELSE req[r].result.error.message

\* C10 amended: a body whose error field is truthy, whatever the status,
\* resolves {success: false, error: M} and never a success, where M is
\* error.message when the error value has a non-empty message and the JSON
\* text of the error value otherwise (a string error comes out quoted); a
\* body whose error field is null resolves as the success it is.
C10_TruthyErrorIsFailure ==
    \A r \in Requests :
        (req[r].pc = "responded" /\ req[r].result # NoBody)
        => LET e == req[r].result.error
           IN  /\ (e.kind = "object" /\ e.message # "") =>
                     req[r].resp = FailureResponse(e.message)
               /\ (e.kind = "string" /\ e.text # "") =>
                     /\ req[r].resp = FailureResponse(e.json)
                     /\ e.json # e.text
               /\ e.kind \in {"null", "absent"} =>
                     req[r].resp = SuccessResponse(req[r].result)

\* the body {error: {message: "insufficient funds"}} of the generate_qr_code
\* call resolved as the failure "insufficient funds"
C10_Witness ==
    \E r \in Requests :
        /\ req[r].pc = "responded"
        /\ req[r].result =
              MkBody(ErrObject, MkUrl(DefaultServerUrl, "generate_qr_code", <<>>))
        /\ req[r].resp = FailureResponse("insufficient funds")

\* C11: the payment-required challenge of the tool server (HTTP 402, body
\* {error: "payment_required", message: M, details}) resolves as the failure
\* whose error text is M, the message the server provided.
C11_ChallengeMessageSurfaced ==
    \A r \in Requests :
        (req[r].pc = "responded" /\ req[r].result.error = ErrString)
        => req[r].resp = FailureResponse(BodyMessage(req[r].result))

(***************************************************************************)
(* Properties of the token cache.                                          *)
(***************************************************************************)

\* C13: the cached token and the cached expiry are both absent or both
\* present, and every write of the session store puts there the token and
\* the expiry that one request holds from its own successful authentication
\* (the token issued to it, the expiry computed when it was issued), under
\* every interleaving of concurrent acquisitions.
C13_TokenAndExpiryTogether ==
    /\ [](/\ (session.bearerToken = NoToken) <=> (session.tokenExpiry = 0)
          /\ \A r \in Requests :
                req[r].pc = "sessionSet" =>
                    /\ req[r].token # NoToken /\ req[r].token.id = r
                    /\ CacheLifetimeMs <= req[r].expiryTime
                    /\ req[r].expiryTime <= now + CacheLifetimeMs)
    /\ [][session' # session =>
            \E r \in Requests :
                /\ req[r].pc = "sessionSet" /\ req'[r].pc # "sessionSet"
                /\ session' = [bearerToken |-> req[r].token,
                               tokenExpiry |-> req[r].expiryTime]]_vars

\* two concurrent acquisitions: the second request stored its token first,
\* the first request, answered one tick later, then replaced both fields
C13_Witness ==
    /\ req[2].pc = "toolFetch" /\ ~req[2].fromCache /\ req[2].token.id = 2
    /\ session.bearerToken.id = 1
    /\ session.tokenExpiry = TickMs + CacheLifetimeMs

\* C14: a token issued with the default declared lifetime of 3600 s is
\* cached with an expiry of 55 minutes after its issue, which is strictly
\* less than 3600000 ms after the time of caching (and at most 55 minutes
\* after it); a getBearerToken call that reads the store before that expiry
\* returns the cached token without an authentication request.
C14_ExpiryWithinDeclaredLifetime ==
    /\ [](\A r \in Requests :
            req[r].pc = "authFetch" =>
                \A data \in AuthBodies(r) :
                    ( /\ data.bearer_token # NoToken
                      /\ data.lifetimeMs = 3600 * 1000 )
                    => LET got == AuthAnswered(req[r], TRUE, data)
                       IN  /\ got.pc = "sessionSet"
                           /\ got.token = data.bearer_token
                           /\ got.expiryTime = now + 55 * 60 * 1000
                           /\ got.expiryTime < now + data.lifetimeMs)
    /\ [][session' # session =>
            /\ session'.tokenExpiry < now' + 3600000
            /\ session'.tokenExpiry <= now' + 55 * 60 * 1000
            /\ \E r \in Requests :
                  /\ req[r].pc = "sessionSet"
                  /\ session'.tokenExpiry = req[r].expiryTime
                  /\ session'.bearerToken = req[r].token]_vars
    /\ [][\A r \in Requests :
            ( /\ req[r].pc = "sessionGet" /\ req'[r].pc # "sessionGet"
              /\ session.bearerToken # NoToken
              /\ now < session.tokenExpiry )
            => /\ req'[r].pc # "syncGet"
               /\ req'[r].pc = "toolFetch" =>
                     req'[r].token = session.bearerToken]_vars

\* the token issued to the first request was cached at time 0 with expiry
\* 3300000, and the second request was returned it from the cache
C14_Witness ==
    /\ now = 0
    /\ session = [bearerToken |-> MkToken(DefaultServerUrl, 1),
                  tokenExpiry |-> 3300000]
    /\ req[2].pc = "toolFetch" /\ req[2].fromCache
    /\ req[2].token = MkToken(DefaultServerUrl, 1)

\* C15: whatever lifetime the server declares for the token it issues, the
\* expiry cached for the token is earlier than the end of that lifetime.
C15_ExpiryBeforeDeclaredEnd ==
    \A r \in Requests :
        req[r].pc = "authFetch" =>
            \A data \in AuthBodies(r) :
                data.bearer_token # NoToken =>
                    AuthAnswered(req[r], TRUE, data).expiryTime
                        < now + data.lifetimeMs

\* C16: when the authentication response has a non-success status or no
\* bearer_token, getBearerToken fails with the message of the response if it
\* has one and with the generic message otherwise; the request is answered
\* with that failure, holds no token, and makes no further request (neither
\* to the auth endpoint nor to the tool server); the cache is not written.
C16_AuthRejectionFails ==
    /\ [](\A r \in Requests :
            req[r].pc = "authFetch" =>
                \A ok \in BOOLEAN, data \in AuthBodies(r) :
                    (~ok \/ data.bearer_token = NoToken)
                    => LET got == AuthAnswered(req[r], ok, data)
                       IN  /\ got.pc = "responded" /\ got.nresp = 1
                           /\ got.resp =
                                 FailureResponse(
                                    IF data.message # "" THEN data.message
                                    ELSE "Failed to get bearer token.")
                           /\ got.token = NoToken
                           /\ got.authUrl = NoUrl /\ got.toolUrl = NoUrl)
    /\ [][\A r \in Requests :
            (req[r].pc = "authFetch" /\ req'[r].pc # "authFetch")
            => \/ req'[r].pc = "sessionSet" /\ req'[r].token # NoToken
               \/ /\ req'[r].pc = "responded"
                  /\ ~req'[r].resp.success
                  /\ session' = session]_vars

\* the auth endpoint refused the key with a message of its own, and the
\* request is answered with that message
C16_Witness ==
    \E r \in Requests :
        /\ req[r].pc = "responded"
        /\ req[r].resp = FailureResponse("Invalid pre-shared key")
        /\ req[r].token = NoToken

(***************************************************************************)
(* Properties of the message protocol.                                     *)
(***************************************************************************)
PipelinePositions ==
    {"sessionGet", "syncGet", "authFetch", "sessionSet", "toolFetch"}

\* C12 as stated: a message with action "executeCall" is handled like one
\* with action "executeAHP": it is in the pipeline (token acquisition, call)
\* until it has been sent its one response.
C12_ExecuteCallHandled ==
    \A r \in Requests :
        req[r].action = "executeCall" =>
            req[r].pc \in PipelinePositions \/ req[r].nresp = 1

\* an "executeCall" message lies ignored while an "executeAHP" message sent
\* after it for the same URL has been answered with a result
C12_Witness ==
    /\ req[1].pc = "ignored" /\ req[1].action = "executeCall"
    /\ req[1].nresp = 0
    /\ req[2].pc = "responded" /\ req[2].resp.success
    /\ req[2].resp.data.tool = <<req[1].url.base, req[1].url.path>>

\* C17: the session store changes only when a request in the pipeline
\* completes the storing of the token issued to it; a failed acquisition, a
\* tool call and its errors, a message with another action and a change of
\* the settings leave the cached token and expiry as they are.
C17_CacheWrittenOnlyOnSuccess ==
    /\ [][session' # session =>
            \E r \in Requests :
                /\ req[r].pc = "sessionSet" /\ req'[r].pc # "sessionSet"
                /\ req[r].action = "executeAHP"
                /\ req[r].token # NoToken /\ req[r].token.id = r
                /\ session' = [bearerToken |-> req[r].token,
                               tokenExpiry |-> req[r].expiryTime]]_vars
    /\ [][\A r \in Requests :
            ( \/ /\ req[r].pc \in {"syncGet", "authFetch", "toolFetch"}
                 /\ req'[r].pc = "responded"
              \/ req[r].pc = "idle" /\ req'[r].pc = "ignored" )
            => session' = session]_vars
    /\ [][ahpSettings' # ahpSettings => session' = session]_vars

\* a token is cached; the request it was issued to was answered the error of
\* its tool call, and a message with another action arrived: the token is
\* still the one cached
C17_Witness ==
    /\ session.bearerToken = MkToken(DefaultServerUrl, 1)
    /\ req[1].pc = "responded" /\ ~req[1].resp.success
    /\ req[1].result.error = ErrObject
    /\ req[2].pc = "ignored"

(***************************************************************************)
(* Properties of the detection.                                            *)
(***************************************************************************)

\* C18: once the pattern is configured and the observer is connected, every
\* code element in the document whose text matches the pattern has been
\* given an affordance for its URL at the insertion, however it was
\* inserted - exactly one when the URL occurs once.
C18_EveryInsertionDetected ==
    \A b \in Buttons :
        ( /\ observing /\ ahpUrlRegex # ""
          /\ codeBlocks[b].attached
          /\ codeBlocks[b].text[1].base = ahpUrlRegex )
        => /\ Len(affordances[b]) >= 1
           /\ buttons[b].exists /\ buttons[b].url = codeBlocks[b].text[1]
           /\ Len(codeBlocks[b].text) = 1 => Len(affordances[b]) = 1

\* C19: a scan that covers a code element already marked processed - the
\* observer's scan of a re-inserted subtree, or the scan of the whole
\* document after a settings change - creates no affordance for it and
\* leaves the marker and the button it has.
C19_ScanIdempotentOnProcessed ==
    [][\A b \in Buttons :
         codeBlocks[b].processed =>
             /\ codeBlocks'[b].processed
             /\ affordances'[b] = affordances[b]
             /\ buttons'[b] = buttons[b]]_vars

\* a processed element with its one affordance, covered again by a scan
C19_Witness ==
    \E b \in Buttons :
        /\ codeBlocks[b].processed /\ codeBlocks[b].rescanned
        /\ codeBlocks[b].how = "subtree"
        /\ Len(affordances[b]) = 1 /\ buttons[b].exists

\* C20: at most one affordance is created from a code element for a URL,
\* however many times the URL occurs in the element's text.
C20_OneAffordancePerNodeAndUrl ==
    \A b \in Buttons :
        \A i, j \in DOMAIN affordances[b] :
            affordances[b][i] = affordances[b][j] => i = j

\* C21: when a code element that holds several distinct URLs matching the
\* pattern has been processed, each of those URLs has exactly one affordance
\* carrying it, under content.js and under chatgpt_content.js.
C21_EachDistinctUrlOneAffordance ==
    \A b \in Buttons :
        LET text == codeBlocks[b].text
        IN  ( /\ codeBlocks[b].processed
              /\ Len(text) >= 2
              /\ \A i, j \in DOMAIN text : text[i] = text[j] => i = j )
            => \A i \in DOMAIN text :
                  Cardinality({j \in DOMAIN affordances[b] :
                                  affordances[b][j] = text[i]}) = 1

\* C22: the marker of a code element is never taken off, and a marked
\* element is given no further affordance - it has the one created when it
\* was marked - whatever happens after: a change of its text, the observer's
\* scan of a subtree that holds it, the scan of the document after a change
\* of the settings, activations, responses and injections.
C22_MarkerMonotonic ==
    /\ [][\A b \in Buttons :
            codeBlocks[b].processed =>
                /\ codeBlocks'[b].processed
                /\ affordances'[b] = affordances[b]]_vars
    /\ [](\A b \in Buttons :
            codeBlocks[b].processed => Len(affordances[b]) = 1)

\* the text of a marked element was changed to another URL of the pattern's
\* server, a scan has covered the element since, and its affordance is still
\* the one for the URL it first held
C22_Witness ==
    \E b \in Buttons :
        /\ codeBlocks[b].processed /\ codeBlocks[b].rescanned
        /\ codeBlocks[b].text = <<SecondUrl(b)>>
        /\ ahpUrlRegex = SecondUrl(b).base
        /\ affordances[b] = <<Document[b]>>

\* C23: the URL of an affordance never changes once the affordance exists -
\* not by a change of the element's text, a scan or a change of the settings
\* - and the execution request an activation sends is for that URL.
C23_AffordanceUrlFixed ==
    /\ [][\A b \in Buttons :
            buttons[b].exists =>
                /\ buttons'[b].exists
                /\ buttons'[b].url = buttons[b].url
                /\ affordances'[b] = affordances[b]]_vars
    /\ [](\A b \in Buttons :
            buttons[b].exists => buttons[b].url = affordances[b][1])
    /\ [](\A r \in Requests :
            (req[r].btn # 0 /\ req[r].pc \in PipelinePositions)
            => req[r].url = affordances[req[r].btn][1])

\* after a failed first activation, the second activation of an affordance
\* whose element now shows another URL, under settings that name another
\* server: the request is for the URL first matched
C23_Witness ==
    \E b \in Buttons :
        /\ req[1].pc = "done"
        /\ req[2].pc = "sessionGet" /\ req[2].btn = b
        /\ req[2].url = Document[b]
        /\ codeBlocks[b].text = <<SecondUrl(b)>>
        /\ ahpUrlRegex = CustomServerUrl
        /\ \A c \in Buttons \ {b} : buttons[c].label # "Failed"

\* C24: whenever the pattern of a content script is not the one derived
\* from the stored settings - the settings were changed, or the script has
\* just started - the script eventually replaces it with the pattern derived
\* from the server URL the settings name; this under content.js and under
\* chatgpt_content.js.
C24_PatternFollowsSettings ==
    (ahpUrlRegex # ServerUrlOf(ahpSettings))
        ~> (ahpUrlRegex = ServerUrlOf(ahpSettings))

\* C25: no affordance is created for a URL whose path on the tool server is
\* reserved (root, auth, schema, openapi, session/start, health, robots.txt).
C25_NoAffordanceForReservedPath ==
    \A b \in Buttons :
        \A i \in DOMAIN affordances[b] :
            affordances[b][i].path \notin ReservedPaths

(***************************************************************************)
(* Properties of the call of an affordance.                                *)
(***************************************************************************)
InFlight(b) ==
    {r \in Requests :
        req[r].btn = b /\ req[r].pc \in PipelinePositions \cup {"responded"}}

C27_FailedIsReenabled ==
    /\ [][\A r \in Requests :
            ( /\ req[r].pc = "responded" /\ req[r].btn # 0
              /\ ~req[r].resp.success /\ req'[r].pc = "done" )
            => /\ buttons'[req[r].btn].label = "Failed"
               /\ ~buttons'[req[r].btn].disabled
               /\ buttons'[req[r].btn].url = buttons[req[r].btn].url]_vars
    /\ [](\A b \in Buttons :
            buttons[b].label = "Failed" => ~buttons[b].disabled)
    /\ [][\A b \in Buttons :
            (buttons[b].label = "Failed" /\ buttons'[b].label # "Failed")
            => /\ buttons'[b].label = "Executing..."
               /\ nreq' = nreq + 1
               /\ req'[nreq'].pc = "sessionGet"
               /\ req'[nreq'].action = "executeAHP"
               /\ req'[nreq'].btn = b
               /\ req'[nreq'].url = buttons[b].url]_vars

\* the first activation of an affordance failed and was answered; its second
\* activation has a request at the tool server for the same URL, and no
\* other affordance was activated
C27_Witness ==
    \E b \in Buttons :
        /\ req[1].pc = "done"
        /\ req[2].pc = "toolFetch" /\ req[2].btn = b
        /\ req[2].url = buttons[b].url
        /\ buttons[b].label = "Executing..."
        /\ \A c \in Buttons \ {b} : buttons[c].label \in {"", "Execute"}

\* C28: the input surface is written, and the submit timer set, only by the
\* callback of a {success: true} response, which writes the whole formatted
\* result of that response; the callback of a failure leaves the input
\* surface, the timers and the send button alone; the send button is
\* clicked only by the timer of an injection.
C28_FailureInjectsNothing ==
    /\ [][(chatInput' # chatInput \/ \E r \in Requests : timers'[r] = "button"
                                                        /\ timers[r] = "none")
          => \E r \in Requests :
                /\ req[r].pc = "responded" /\ req[r].btn # 0
                /\ req[r].resp.success /\ req[r].resp.data # NoBody
                /\ req'[r].pc = "done"
                /\ chatInput' = [fence |-> "json", text |-> req[r].resp.data]
                /\ timers'[r] # "none"]_vars
    /\ [][\A r \in Requests :
            ( /\ req[r].pc = "responded" /\ req[r].btn # 0
              /\ ~req[r].resp.success /\ req'[r].pc = "done" )
            => /\ chatInput' = chatInput
               /\ timers' = timers
               /\ sendClicks' = sendClicks]_vars
    /\ [][sendClicks' # sendClicks =>
            \E r \in Requests : timers[r] = "button" /\ timers'[r] = "none"]_vars

\* one call failed and another succeeded: the input surface holds the
\* result of the successful one, which was submitted
C28_Witness ==
    \E b, c \in Buttons :
        /\ buttons[b].label = "Failed" /\ buttons[c].label = "Injected"
        /\ chatInput.fence = "json"
        /\ chatInput.text.tool = <<buttons[c].url.base, buttons[c].url.path>>
        /\ sendClicks = 1

\* C29: an affordance has at most one execution request in flight; while it
\* has one it is disabled and shows Executing, and no message is sent from
\* a disabled affordance.
C29_OneInFlightPerAffordance ==
    /\ [](\A b \in Buttons :
            /\ Cardinality(InFlight(b)) <= 1
            /\ InFlight(b) # {} =>
                  buttons[b].disabled /\ buttons[b].label = "Executing...")
    /\ [][\A b \in Buttons :
            (buttons[b].disabled /\ nreq' = nreq + 1)
            => req'[nreq'].btn # b]_vars

\* the request of one affordance is at the tool server, the affordance
\* disabled, and the activation that came next was of another affordance
C29_Witness ==
    \E b, c \in Buttons :
        /\ b # c
        /\ req[1].btn = b /\ req[1].pc = "toolFetch"
        /\ buttons[b].disabled
        /\ req[2].btn = c /\ req[2].pc = "sessionGet"

\* C30: an affordance shows Injected only if the result was written to the
\* input surface; a call whose injection found no input surface does not
\* end in Injected.
C30_InjectedMeansWritten ==
    \A b \in Buttons : buttons[b].label = "Injected" => buttons[b].injected

(***************************************************************************)
(* Properties of the submit step.                                          *)
(***************************************************************************)

\* C31: when the delay after an injection elapses, the send button is
\* clicked - once - if and only if the page has a send button at that moment
\* and it is enabled; otherwise nothing is clicked and the result stays in
\* the input surface.
C31_SubmitIfEnabledAtDelay ==
    \A r \in Requests :
        timers[r] # "none" =>
            /\ chatInput # NoInput
            /\ \A foundNow \in BOOLEAN, enabled \in BOOLEAN :
                  (timers[r] = "button" => foundNow)
                  => SubmitClicks(script, timers[r] = "button",
                                  foundNow, enabled)
                        = (foundNow /\ enabled)

(***************************************************************************)
(* Properties of the token's expiry.                                       *)
(***************************************************************************)

\* C32: when the tool server rejects a call because it does not accept the
\* bearer token, the rejected token does not stay in the cache: the next
\* execution request finds no valid token there and obtains a new one.
C32_RejectedTokenNotReused ==
    [][\A r \in Requests :
         ( /\ req[r].pc = "toolFetch" /\ req'[r].pc = "responded"
           /\ req'[r].result.error = ErrToken )
         => session'.bearerToken # req[r].token]_vars

(***************************************************************************)
(* Properties of the tool call's answer.                                   *)
(***************************************************************************)

C34_ExpiredTokenRefreshed ==
    /\ [][\A r \in Requests :
            ( /\ req[r].pc = "sessionGet" /\ req'[r] # req[r]
              /\ session.bearerToken # NoToken
              /\ now >= session.tokenExpiry )
            => /\ req'[r].pc = "syncGet"
               /\ ~req'[r].fromCache /\ req'[r].token = NoToken]_vars
    /\ [][\A r \in Requests :
            ( /\ req[r].pc = "syncGet" /\ req'[r] # req[r]
              /\ ahpSettings.present
              /\ ahpSettings.email # "" /\ ahpSettings.preSharedKey # "" )
            => /\ req'[r].pc = "authFetch"
               /\ req'[r].authUrl.path = "auth"]_vars
    /\ [][\A r \in Requests :
            (req[r].pc = "sessionSet" /\ req'[r] # req[r])
            => /\ req[r].token.id = r
               /\ session'.bearerToken = req[r].token
               /\ session'.tokenExpiry = req[r].expiryTime
               /\ req'[r].pc = "toolFetch" => req'[r].token = req[r].token]_vars
    /\ [][\A r \in Requests :
            (req'[r].fromCache /\ ~req[r].fromCache)
            => /\ now < session.tokenExpiry
               /\ now >= PriorSession.tokenExpiry =>
                     req'[r].token # PriorSession.bearerToken]_vars

\* the token cached at the start has expired; a request read it, went to
\* the auth endpoint and holds the new token it is about to store
C34_Witness ==
    \E r \in Requests :
        /\ session = PriorSession /\ now >= session.tokenExpiry
        /\ req[r].pc = "sessionSet" /\ req[r].token.id = r
        /\ req[r].expiryTime = now + CacheLifetimeMs

(***************************************************************************)
(* The broker under settings that name either server: the popup can store  *)
(* the custom server (popup.js:61-68) while the page still sends the URLs  *)
(* written for the default one, and while a token is cached.               *)
(***************************************************************************)
ServerForms == Forms \cup {<<"custom", CustomServerUrl, Email, PreSharedKey>>}

NextServers ==
    \/ Tick
    \/ \E f \in ServerForms : PopupSubmit(f[1], f[2], f[3], f[4])
    \/ \E url \in RequestUrls : OnMessage(url)
    \/ \E r \in Requests : BrokerStep(r)
    \/ \E r \in Requests : Deliver(r)

SpecServers == Init /\ [][NextServers]_vars

C36_ResultKeptUntilItsSubmit ==
    [][\A r \in Requests :
          (timers[r] # "none" /\ timers'[r] # "none")
          => chatInput' = chatInput]_vars

\* C37: every code element that carries the processed marker has at least
\* one affordance created from it.
C37_ProcessedHasAffordance ==
    \A b \in Buttons :
        codeBlocks[b].processed => affordances[b] # <<>>

\* C38: a submission of the settings form whose e-mail or key is empty or
\* blank, or whose server type is custom with an empty or blank custom URL,
\* leaves the stored settings as they are; every settings object a
\* submission stores has a trimmed, non-empty e-mail and key, and a
\* non-empty customServerUrl exactly when its serverType is "custom".
IsBlank(str) == str = "" \/ str \in Whitespace

C38_PopupStoresOnlyCompleteSettings ==
    /\ [][\A f \in PopupForms :
            ( /\ PopupSubmit(f[1], f[2], f[3], f[4])
              /\ \/ IsBlank(f[3]) \/ IsBlank(f[4])
                 \/ (f[1] = "custom" /\ IsBlank(f[2])) )
            => ahpSettings' = ahpSettings]_vars
    /\ [][ahpSettings' # ahpSettings =>
            /\ ahpSettings'.present
            /\ ahpSettings'.email = Email
            /\ ahpSettings'.preSharedKey = PreSharedKey
            /\ ahpSettings'.serverType = "custom"
                  <=> ahpSettings'.customServerUrl # ""
            /\ ahpSettings'.customServerUrl \in {"", CustomServerUrl}]_vars

\* the popup has stored settings for a server of the user's own
C38_Witness ==
    /\ ahpSettings.present
    /\ ahpSettings.serverType = "custom"
    /\ ahpSettings.customServerUrl = CustomServerUrl
    /\ ahpSettings.email = Email /\ ahpSettings.preSharedKey = PreSharedKey

\* C39: the observer's callback for the nodes the script itself added when
\* it attached affordances to a code element covers no code element and
\* creates nothing: markers, buttons and affordances are as before it.
\* Affordances are created for a code element only by the step that sets its
\* marker, so each element is given affordances at most once, and no more
\* of them than URLs are written in it.
C39_OwnInsertionsCreateNothing ==
    /\ [](\A b \in Buttons, kind \in OwnAddedNodes(script) :
            (observing /\ affordances[b] # <<>>) =>
               LET scope == ObserverScope(b, kind)
               IN  /\ scope = {}
                   /\ FindAndProcessAhpUrls(scope, ahpUrlRegex, codeBlocks)
                         = codeBlocks
                   /\ AffordancesAfterScan(scope, ahpUrlRegex, codeBlocks)
                         = affordances
                   /\ ButtonsAfterScan(scope, ahpUrlRegex, codeBlocks)
                         = buttons)
    /\ [](\A b \in Buttons :
            Len(affordances[b]) <= Len(codeBlocks[b].text))
    /\ [][\A b \in Buttons :
            affordances'[b] # affordances[b] =>
               ~codeBlocks[b].processed /\ codeBlocks'[b].processed]_vars

\* content.js, connected to the document, has added two buttons to one
\* code element
C39_Witness ==
    \E b \in Buttons :
        /\ script = ContentJs /\ observing
        /\ codeBlocks[b].processed /\ codeBlocks[b].attached
        /\ Len(affordances[b]) = 2

====
